---------------------------- MODULE Spec2Model ----------------------------
(***************************************************************************)
(* Change-impact pipeline of poc-cloudformation:                           *)
(*   scripts/pre-ci/change-detection.py      (Change Detector)             *)
(*   scripts/prepare-change-meta.py          (Metadata Enhancer)           *)
(*   scripts/pre-ci/validate-change-impact.py (Impact Validator)           *)
(*                                                                         *)
(* Python values are modelled as follows.                                  *)
(*   str (paths, globs)  a sequence of one-character strings               *)
(*   str (names)         a TLA+ string                                     *)
(*   None                the string None_ (no name of the model equals it) *)
(*   list                a sequence                                        *)
(*   set                 a set                                             *)
(*   dict, fixed shape   a function on the keys present (a record whose    *)
(*                       DOMAIN is the key set: "k in d" is k \in DOMAIN d)*)
(*   dict, free keys     a sequence of [k, v] pairs in insertion order     *)
(***************************************************************************)
EXTENDS Integers, Sequences, FiniteSets, TLC

VARIABLES
    exclusion_patterns,          \* config['exclusions']['patterns']
    resource_mappings,           \* config['resourceMappings'], insertion-ordered
    deployment_checklist_config, \* config['deploymentChecklist'], insertion-ordered
    changed_files,               \* get_changed_files(...)
    pc,                          \* position in the pipeline
    file_idx,                    \* position of the outer for loop (1-based)
    match_idx,                   \* position of the inner for loop (1-based)
    change_metadata,             \* the Detector's in-memory document
    metadata_file,               \* change-metadata.json
    condition_mapping,           \* config['cloudFormationConditionMapping'], once loaded
    enhanced_file,               \* change-metadata-enhanced.json
    result                       \* what validate_change_impact returned

vars == <<exclusion_patterns, resource_mappings, deployment_checklist_config,
          changed_files, pc, file_idx, match_idx, change_metadata,
          metadata_file, condition_mapping, enhanced_file, result>>

config_vars == <<exclusion_patterns, resource_mappings,
                 deployment_checklist_config, changed_files>>

detector_vars == <<file_idx, match_idx, change_metadata>>

enhanced_vars == <<condition_mapping, enhanced_file>>

-----------------------------------------------------------------------------
(* Bounds of the model. *)

\* longest changed-file list
MaxFiles == 2

\* longest affected_resources list of a hand-made document
MaxResources == 2

-----------------------------------------------------------------------------
(* Python helpers. *)

None_ == "<None>"

Range(s) == {s[n] : n \in DOMAIN s}

\* bool(x) of a str-or-None value
Truthy(x) == x # None_ /\ x # ""

\* d.get(k, default) on a fixed-shape dict
Get(d, k, default) == IF k \in DOMAIN d THEN d[k] ELSE default

\* d[k] = v on a fixed-shape dict
Put(d, k, v) == [f \in DOMAIN d \cup {k} |-> IF f = k THEN v ELSE d[f]]

\* the keys of an insertion-ordered dict
DictKeys(d) == {d[n].k : n \in DOMAIN d}

\* d[k] of an insertion-ordered dict, for k in d
DictAt(d, k) == d[CHOOSE n \in DOMAIN d : d[n].k = k].v

\* d.get(k, default) of an insertion-ordered dict
DictGet(d, k, default) == IF k \in DictKeys(d) THEN DictAt(d, k) ELSE default

\* d[k] = v of an insertion-ordered dict: an existing key keeps its place
DictSet(d, k, v) ==
    IF k \in DictKeys(d)
    THEN [n \in DOMAIN d |-> IF d[n].k = k THEN [k |-> k, v |-> v] ELSE d[n]]
    ELSE Append(d, [k |-> k, v |-> v])

\* any(d.values())
AnyValue(d) == \E n \in DOMAIN d : d[n].v = TRUE

\* list(s) of a set: the elements once each, in an order the hash seed picks
ListsOf(S) ==
    {s \in [1..Cardinality(S) -> S] : \A a, b \in 1..Cardinality(S) : s[a] = s[b] => a = b}

-----------------------------------------------------------------------------
(* Glob patterns: fnmatch.fnmatch on POSIX (normcase is the identity).      *)
(* A pattern is a sequence of tokens.                                       *)

Lit(c)   == [k |-> "lit",  s |-> {c}]   \* an ordinary character
AnyChar  == [k |-> "any",  s |-> {}]    \* ?
Star     == [k |-> "star", s |-> {}]    \* *
Class(S) == [k |-> "set",  s |-> S]     \* [seq]
NotClass(S) == [k |-> "nset", s |-> S]  \* [!seq]

TokenAccepts(t, c) ==
    CASE t.k = "lit"  -> c \in t.s
      [] t.k = "any"  -> TRUE
      [] t.k = "set"  -> c \in t.s
      [] t.k = "nset" -> c \notin t.s
      [] OTHER        -> FALSE

RECURSIVE fnmatch(_, _)
fnmatch(name, pat) ==
    IF pat = <<>> THEN name = <<>>
    ELSE IF Head(pat).k = "star"
         THEN fnmatch(name, Tail(pat))
              \/ (name # <<>> /\ fnmatch(Tail(name), pat))
         ELSE name # <<>>
              /\ TokenAccepts(Head(pat), Head(name))
              /\ fnmatch(Tail(name), Tail(pat))

\* file_path.replace("\\", "/")
Normalize(file_path) ==
    [n \in DOMAIN file_path |-> IF file_path[n] = "\\" THEN "/" ELSE file_path[n]]

is_excluded(file_path, patterns) ==
    \E n \in DOMAIN patterns : fnmatch(Normalize(file_path), patterns[n])

\* whether any pattern of one mapping matches (the inner loop with its break)
MappingMatches(file_path, mapping_config) ==
    LET patterns == Get(mapping_config, "patterns", <<>>)
    IN  \E n \in DOMAIN patterns : fnmatch(Normalize(file_path), patterns[n])

\* the (mapping_key, mapping_config) pairs that match, in declaration order
RECURSIVE match_file_to_mapping(_, _)
match_file_to_mapping(file_path, mappings) ==
    IF mappings = <<>> THEN <<>>
    ELSE IF MappingMatches(file_path, Head(mappings).v)
         THEN <<Head(mappings)>> \o match_file_to_mapping(file_path, Tail(mappings))
         ELSE match_file_to_mapping(file_path, Tail(mappings))

-----------------------------------------------------------------------------
(* The inputs the model draws from. *)

F_lambda     == <<"l", "/", "p">>     \* lambda/index.py
F_lambda_win == <<"l", "\\", "p">>    \* lambda\index.py
F_docs       == <<"d", "/", "m">>     \* docs/notes.md
F_readme     == <<"r">>               \* README

Files == {F_lambda, F_lambda_win, F_docs, F_readme}

P_lambda == <<Lit("l"), Lit("/"), Star>>             \* l/*
P_docs   == <<Lit("d"), Lit("/"), Star>>             \* d/*
P_one    == <<AnyChar>>                              \* ?
P_all    == <<Star>>                                 \* *
P_class  == <<Class({"l", "d"}), Star, Lit("p")>>    \* [ld]*p
P_notl   == <<NotClass({"l"}), Star>>                \* [!l]*

\* git diff --name-only lists each path once
FileLists ==
    {fl \in UNION {[1..n -> Files] : n \in 0..MaxFiles} :
        \A a, b \in DOMAIN fl : fl[a] = fl[b] => a = b}

ExclusionChoices == {<<>>, <<P_docs>>, <<P_one, P_lambda>>}

Mappings ==
    { [k |-> "app-lambda",
       v |-> [patterns |-> <<P_lambda>>, resource_type |-> "lambda",
              impact_level |-> "CRITICAL", target_stack |-> "all",
              description |-> "application code",
              required_actions |-> <<"build", "deploy">>]],
      [k |-> "templates",
       v |-> [patterns |-> <<P_docs, P_class>>, resource_type |-> "template",
              impact_level |-> "LOW", target_stack |-> "infra",
              required_actions |-> <<"build">>]],
      [k |-> "legacy",
       v |-> [patterns |-> <<P_all>>, impact_level |-> "CRITICAL",
              target_stack |-> "ghost"]],
      [k |-> "misc",
       v |-> [patterns |-> <<P_notl>>]],
      [k |-> "blank",
       v |-> [patterns |-> <<P_all>>, resource_type |-> "other",
              impact_level |-> "LOW", target_stack |-> "",
              required_actions |-> <<>>]],
      [k |-> "app-config",
       v |-> [patterns |-> <<P_lambda>>, impact_level |-> "HIGH",
              target_stack |-> "application",
              required_actions |-> <<"deploy">>]] }

\* resourceMappings: up to two mappings, in either declaration order
MappingChoices ==
    {<<>>} \cup {<<m>> : m \in Mappings}
           \cup {x \in Mappings \X Mappings : x[1] # x[2]}

Stack(name) == [k |-> name, v |-> FALSE]

ChecklistChoices ==
    { <<>>, <<Stack("infra")>>, <<Stack("application")>>,
      <<Stack("infra"), Stack("application")>>,
      <<Stack("application"), Stack("infra")>>,
      <<Stack(""), Stack("infra")>> }

-----------------------------------------------------------------------------
(* Change Detector: run_change_detection. *)

\* the document of lines 104-115
InitialMetadata(files, checklist_config) ==
    [ change_detection_config |-> "config/change-detection-config.yaml",
      base_commit |-> "main",
      head_commit |-> "HEAD",
      changed_files_count |-> Len(files),
      changed_files |-> files,
      affected_resources |-> <<>>,
      affected_mappings |-> {},
      deployment_checklist |->
          [n \in DOMAIN checklist_config |-> [k |-> checklist_config[n].k, v |-> FALSE]],
      required_actions |-> {},
      cloudformation_conditions |-> <<>> ]

NoFile == <<>>
NoResult == <<>>

\* the file the outer loop is at, and its matches
CurrentFile == changed_files[file_idx]
CurrentMatches == match_file_to_mapping(CurrentFile, resource_mappings)
CurrentMatch == CurrentMatches[match_idx]

\* SkipsFile without the exclusion test
SkipsFile_never(file_path) == FALSE

\* line 120: whether the loop skips the file
SkipsFile(file_path) == is_excluded(file_path, exclusion_patterns)

\* ResourceEntry that copies only the fields the rule defines
ResourceEntry_sparse(file_path, mapping_key, mapping_config) ==
    [f \in {"file", "mapping"}
           \cup ({"resource_type", "impact_level", "target_stack", "description"}
                 \cap DOMAIN mapping_config) |->
        CASE f = "file" -> file_path
          [] f = "mapping" -> mapping_key
          [] OTHER -> mapping_config[f]]

\* lines 128-135: the affected_resources entry of one match
ResourceEntry(file_path, mapping_key, mapping_config) ==
    [ file |-> file_path,
      mapping |-> mapping_key,
      resource_type |-> Get(mapping_config, "resource_type", None_),
      impact_level |-> Get(mapping_config, "impact_level", None_),
      target_stack |-> Get(mapping_config, "target_stack", None_),
      description |-> Get(mapping_config, "description", None_) ]

\* UpdateChecklist that handles "all" and drops a named stack
UpdateChecklist_all_only(checklist, target_stack) ==
    IF target_stack = "all"
    THEN [n \in DOMAIN checklist |-> [k |-> checklist[n].k, v |-> TRUE]]
    ELSE checklist

\* UpdateChecklist that rebuilds the checklist around the one named stack
UpdateChecklist_reset(checklist, target_stack) ==
    IF target_stack = "all"
    THEN [n \in DOMAIN checklist |-> [k |-> checklist[n].k, v |-> TRUE]]
    ELSE IF Truthy(target_stack)
         THEN DictSet([n \in DOMAIN checklist |-> [k |-> checklist[n].k, v |-> FALSE]],
                      target_stack, TRUE)
         ELSE checklist

\* lines 144-150: the checklist after one match
UpdateChecklist(checklist, target_stack) ==
    IF target_stack = "all"
    THEN [n \in DOMAIN checklist |-> [k |-> checklist[n].k, v |-> TRUE]]
    ELSE IF Truthy(target_stack)
         THEN DictSet(checklist, target_stack, TRUE)
         ELSE checklist

\* ApplyMatch that forgets the mapping's required actions
ApplyMatch_no_actions(md, file_path, mapping_key, mapping_config) ==
    [md EXCEPT
        !.affected_resources =
            Append(@, ResourceEntry(file_path, mapping_key, mapping_config)),
        !.affected_mappings = @ \cup {mapping_key},
        !.deployment_checklist =
            UpdateChecklist(@, Get(mapping_config, "target_stack", None_))]

\* lines 126-150: one pass of the inner loop
ApplyMatch(md, file_path, mapping_key, mapping_config) ==
    [md EXCEPT
        !.affected_resources =
            Append(@, ResourceEntry(file_path, mapping_key, mapping_config)),
        !.affected_mappings = @ \cup {mapping_key},
        !.required_actions =
            @ \cup Range(Get(mapping_config, "required_actions", <<>>)),
        !.deployment_checklist =
            UpdateChecklist(@, Get(mapping_config, "target_stack", None_))]

InLoop == pc = "loop" /\ file_idx <= Len(changed_files)

\* lines 120-121: continue
SkipExcluded ==
    /\ InLoop
    /\ SkipsFile(CurrentFile)
    /\ file_idx' = file_idx + 1
    /\ UNCHANGED <<config_vars, pc, match_idx, change_metadata,
                   metadata_file, enhanced_vars, result>>

\* lines 126-150
ProcessMatch ==
    /\ InLoop
    /\ ~SkipsFile(CurrentFile)
    /\ match_idx <= Len(CurrentMatches)
    /\ change_metadata' =
           ApplyMatch(change_metadata, CurrentFile, CurrentMatch.k, CurrentMatch.v)
    /\ match_idx' = match_idx + 1
    /\ UNCHANGED <<config_vars, pc, file_idx, metadata_file, enhanced_vars, result>>

\* the inner loop is exhausted: the outer loop moves on
NextFile ==
    /\ InLoop
    /\ ~SkipsFile(CurrentFile)
    /\ match_idx > Len(CurrentMatches)
    /\ file_idx' = file_idx + 1
    /\ match_idx' = 1
    /\ UNCHANGED <<config_vars, pc, change_metadata, metadata_file,
                   enhanced_vars, result>>

\* lines 152-169: the sets become lists and the document is written
FinishDetection ==
    /\ pc = "loop"
    /\ file_idx > Len(changed_files)
    /\ \E am \in ListsOf(change_metadata.affected_mappings),
          ra \in ListsOf(change_metadata.required_actions) :
          change_metadata' = [change_metadata EXCEPT !.affected_mappings = am,
                                                     !.required_actions = ra]
    /\ metadata_file' = change_metadata'
    /\ pc' = "detected"
    /\ UNCHANGED <<config_vars, file_idx, match_idx, enhanced_vars, result>>

Init ==
    /\ exclusion_patterns \in ExclusionChoices
    /\ resource_mappings \in MappingChoices
    /\ deployment_checklist_config \in ChecklistChoices
    /\ changed_files \in FileLists
    /\ pc = "loop"
    /\ file_idx = 1
    /\ match_idx = 1
    /\ change_metadata = InitialMetadata(changed_files, deployment_checklist_config)
    /\ metadata_file = NoFile
    /\ condition_mapping = NoFile
    /\ enhanced_file = NoFile
    /\ result = NoResult

-----------------------------------------------------------------------------
(* Metadata Enhancer: prepare_change_metadata. *)

ConditionMappingChoices ==
    { <<>>,
      [infra |-> "DeployInfraStack", application |-> "DeployAppStack"],
      [infra |-> "DeploySharedStack", application |-> "DeploySharedStack"],
      [infra |-> "DeployApplicationStack"],
      [infra |-> "", ghost |-> "DeployGhostStack"] }

\* MappedConditions that keeps the first flag written under a name
RECURSIVE MappedConditions_first_wins(_, _, _)
MappedConditions_first_wins(conditions, checklist, mapping) ==
    IF checklist = <<>> THEN conditions
    ELSE LET cf_condition == Get(mapping, Head(checklist).k, None_)
         IN  MappedConditions_first_wins(
                 IF Truthy(cf_condition) /\ cf_condition \notin DictKeys(conditions)
                 THEN DictSet(conditions, cf_condition, Head(checklist).v)
                 ELSE conditions,
                 Tail(checklist), mapping)

\* lines 55-58: the loop over deployment_checklist.items(), in order
RECURSIVE MappedConditions(_, _, _)
MappedConditions(conditions, checklist, mapping) ==
    IF checklist = <<>> THEN conditions
    ELSE LET cf_condition == Get(mapping, Head(checklist).k, None_)
         IN  MappedConditions(
                 IF Truthy(cf_condition)
                 THEN DictSet(conditions, cf_condition, Head(checklist).v)
                 ELSE conditions,
                 Tail(checklist), mapping)

\* CompositeConditions that leaves a condition already written alone
CompositeConditions_setdefault(conditions, checklist) ==
    IF "application" \in DictKeys(checklist)
       /\ "DeployApplicationStack" \notin DictKeys(conditions)
    THEN DictSet(conditions, "DeployApplicationStack",
                 DictGet(checklist, "application", FALSE))
    ELSE conditions

\* lines 62-63: the composite condition
CompositeConditions(conditions, checklist) ==
    IF "application" \in DictKeys(checklist)
    THEN DictSet(conditions, "DeployApplicationStack",
                 DictGet(checklist, "application", FALSE))
    ELSE conditions

\* lines 51-63
CloudformationConditions(metadata, mapping) ==
    LET deployment_checklist == Get(metadata, "deployment_checklist", <<>>)
    IN  CompositeConditions(MappedConditions(<<>>, deployment_checklist, mapping),
                            deployment_checklist)

\* lines 51-74: the enhanced document
prepare_change_metadata(metadata, mapping) ==
    LET deployment_checklist == Get(metadata, "deployment_checklist", <<>>)
        has_affected_resources == Len(Get(metadata, "affected_resources", <<>>)) > 0
        has_deployments == AnyValue(deployment_checklist)
        e1 == Put(metadata, "cloudformation_conditions",
                  CloudformationConditions(metadata, mapping))
        e2 == Put(e1, "metadata_version", "2.0")
        e3 == Put(e2, "enhanced", TRUE)
        e4 == Put(e3, "has_affected_resources", has_affected_resources)
        e5 == Put(e4, "has_deployments", has_deployments)
    IN  Put(e5, "is_valid", has_affected_resources /\ has_deployments)

Enhance ==
    /\ pc = "detected"
    /\ \E mapping \in ConditionMappingChoices :
          /\ condition_mapping' = mapping
          /\ enhanced_file' = prepare_change_metadata(metadata_file, mapping)
    /\ pc' = "enhanced"
    /\ UNCHANGED <<config_vars, detector_vars, metadata_file, result>>

-----------------------------------------------------------------------------
(* Impact Validator: validate_change_impact.  A message is modelled by the  *)
(* check that writes it; the counts and file names in its text are left out.*)

E_NO_RESOURCES_FIELD == "Metadata missing 'affected_resources' field"
E_NO_CHECKLIST_FIELD == "Metadata missing 'deployment_checklist' field"
E_CHECKLIST_EMPTY    == "Affected resources identified but deployment checklist is empty"
E_CRITICAL_NO_ACTION == "Found CRITICAL resources but no required actions defined"
W_NO_RESOURCES       == "Files changed but no affected resources identified"
W_NO_CONDITIONS      == "Enhanced metadata but no CloudFormation conditions generated"
W_NO_RESOURCE_TYPE   == "Resource missing 'resource_type'"
W_NO_IMPACT_LEVEL    == "Resource missing 'impact_level'"

\* lines 41-45
StructuralErrors(metadata) ==
    (IF "affected_resources" \notin DOMAIN metadata
     THEN <<E_NO_RESOURCES_FIELD>> ELSE <<>>)
    \o (IF "deployment_checklist" \notin DOMAIN metadata
        THEN <<E_NO_CHECKLIST_FIELD>> ELSE <<>>)

\* lines 81-86
RECURSIVE ResourceWarnings(_)
ResourceWarnings(resources) ==
    IF resources = <<>> THEN <<>>
    ELSE (IF "resource_type" \notin DOMAIN Head(resources)
          THEN <<W_NO_RESOURCE_TYPE>> ELSE <<>>)
         \o (IF "impact_level" \notin DOMAIN Head(resources)
             THEN <<W_NO_IMPACT_LEVEL>> ELSE <<>>)
         \o ResourceWarnings(Tail(resources))

\* line 90
CriticalResources(resources) ==
    SelectSeq(resources, LAMBDA r : Get(r, "impact_level", None_) = "CRITICAL")

\* Verdict that never fails on warnings
Verdict_lenient(errors, warnings, strict) == Len(errors) = 0

\* line 99
Verdict(errors, warnings, strict) ==
    Len(errors) = 0 /\ (~strict \/ Len(warnings) = 0)

\* lines 47-49
GateResult(errors, warnings) ==
    [is_valid |-> FALSE, errors |-> errors, warnings |-> warnings]

\* CriticalErrors that looks at the first resource only
CriticalErrors_first_only(affected_resources, required_actions) ==
    IF affected_resources # <<>>
       /\ Get(Head(affected_resources), "impact_level", None_) = "CRITICAL"
       /\ required_actions = <<>>
    THEN <<E_CRITICAL_NO_ACTION>> ELSE <<>>

\* lines 88-96
CriticalErrors(affected_resources, required_actions) ==
    IF CriticalResources(affected_resources) # <<>> /\ required_actions = <<>>
    THEN <<E_CRITICAL_NO_ACTION>> ELSE <<>>

\* lines 36-101
validate_change_impact(metadata, strict) ==
    IF StructuralErrors(metadata) # <<>>
    THEN GateResult(StructuralErrors(metadata), <<>>)
    ELSE
    LET affected_resources == Get(metadata, "affected_resources", <<>>)
        deployment_checklist == Get(metadata, "deployment_checklist", <<>>)
        files == Get(metadata, "changed_files", <<>>)
        cf_conditions == Get(metadata, "cloudformation_conditions", <<>>)
        required_actions == Get(metadata, "required_actions", <<>>)
        w2 == IF files # <<>> /\ affected_resources = <<>>
              THEN <<W_NO_RESOURCES>> ELSE <<>>
        e3 == IF affected_resources # <<>> /\ ~AnyValue(deployment_checklist)
              THEN <<E_CHECKLIST_EMPTY>> ELSE <<>>
        w4 == IF Get(metadata, "enhanced", FALSE) = TRUE
                 /\ cf_conditions = <<>> /\ affected_resources # <<>>
              THEN <<W_NO_CONDITIONS>> ELSE <<>>
        w5 == ResourceWarnings(affected_resources)
        e6 == CriticalErrors(affected_resources, required_actions)
        errors == e3 \o e6
        warnings == w2 \o w4 \o w5
    IN  [is_valid |-> Verdict(errors, warnings, strict),
         errors |-> errors, warnings |-> warnings]

PLAIN == "change-metadata.json"
ENHANCED == "change-metadata-enhanced.json"

\* the document validate_change_impact loads from metadata_path
Load(metadata_path) ==
    IF metadata_path = PLAIN THEN metadata_file ELSE enhanced_file

Validate ==
    /\ \E metadata_path \in {PLAIN, ENHANCED}, strict \in BOOLEAN :
          /\ pc = IF metadata_path = PLAIN THEN "detected" ELSE "enhanced"
          /\ result' = [metadata_path |-> metadata_path, strict |-> strict,
                        ret |-> validate_change_impact(Load(metadata_path), strict)]
    /\ pc' = "validated"
    /\ UNCHANGED <<config_vars, detector_vars, metadata_file, enhanced_vars>>

-----------------------------------------------------------------------------
(* The pipeline: Detector, then Enhancer and Validator. *)

Next ==
    \/ SkipExcluded
    \/ ProcessMatch
    \/ NextFile
    \/ FinishDetection
    \/ Enhance
    \/ Validate

Spec == Init /\ [][Next]_vars

-----------------------------------------------------------------------------
(* The Enhancer and the Validator on documents of any origin: both load a   *)
(* JSON file by path, whoever wrote it.                                     *)

\* an optional field: {} when the key is absent, {value} when present
Field(name, opt) == [f \in {name : x \in opt} |-> CHOOSE x \in opt : TRUE]

Merge(a, b) == [f \in DOMAIN a \cup DOMAIN b |-> IF f \in DOMAIN a THEN a[f] ELSE b[f]]

Optional(S) == {{}} \cup {{x} : x \in S}

DocResources ==
    { [file |-> F_lambda, mapping |-> "app-lambda", resource_type |-> "lambda",
       impact_level |-> "CRITICAL"],
      [file |-> F_docs, mapping |-> "templates", resource_type |-> "template",
       impact_level |-> "LOW"],
      [file |-> F_lambda, mapping |-> "legacy", impact_level |-> "CRITICAL"],
      [file |-> F_readme, mapping |-> "misc", resource_type |-> None_],
      [file |-> F_readme, mapping |-> "misc"] }

DocResourceLists == UNION {[1..n -> DocResources] : n \in 0..MaxResources}

DocChecklists ==
    {<<>>}
    \cup {<<[k |-> name, v |-> b]>> : name \in {"infra", "application"}, b \in BOOLEAN}
    \cup {<<[k |-> x[1], v |-> b], [k |-> x[2], v |-> c]>> :
            x \in {<<"infra", "application">>, <<"application", "infra">>},
            b \in BOOLEAN, c \in BOOLEAN}

Documents ==
    { Merge(Field("affected_resources", ar),
      Merge(Field("deployment_checklist", cl),
      Merge(Field("changed_files", cf), Field("required_actions", ra)))) :
        ar \in Optional(DocResourceLists), cl \in Optional(DocChecklists),
        cf \in Optional({<<>>, <<F_lambda>>}),
        ra \in Optional({<<>>, <<"build">>}) }

InitDoc ==
    /\ exclusion_patterns = <<>>
    /\ resource_mappings = <<>>
    /\ deployment_checklist_config = <<>>
    /\ changed_files = <<>>
    /\ pc = "detected"
    /\ file_idx = 1
    /\ match_idx = 1
    /\ change_metadata = InitialMetadata(<<>>, <<>>)
    /\ metadata_file \in Documents
    /\ condition_mapping = NoFile
    /\ enhanced_file = NoFile
    /\ result = NoResult

NextDoc ==
    \/ Enhance
    \/ Validate

SpecDoc == InitDoc /\ [][NextDoc]_vars

-----------------------------------------------------------------------------
(* Properties of the Change Detector, under Spec. *)

Checklist == change_metadata.deployment_checklist
Resources == change_metadata.affected_resources
ConfiguredKeys == DictKeys(deployment_checklist_config)

\* whether a changed file matches some exclusion glob, from the globs themselves
ExcludedFile(file_path) ==
    \E n \in DOMAIN exclusion_patterns :
        fnmatch(Normalize(file_path), exclusion_patterns[n])

\* whether some glob of a mapping rule matches a changed file
RuleMatchesFile(rule, file_path) ==
    \E n \in DOMAIN Get(rule, "patterns", <<>>) :
        fnmatch(Normalize(file_path), rule.patterns[n])

\* whether a changed file that is not excluded matched a mapping that targets
\* the stack, or targets "all"
StackTargeted(stack) ==
    \E a \in DOMAIN changed_files, b \in DOMAIN resource_mappings :
        /\ ~ExcludedFile(changed_files[a])
        /\ RuleMatchesFile(resource_mappings[b].v, changed_files[a])
        /\ Get(resource_mappings[b].v, "target_stack", None_) \in {stack, "all"}

\* C1: the keys of deployment_checklist are exactly the keys of the config's
\* deploymentChecklist, at every point of the loop and in the returned
\* document: a match whose target_stack is not a configured key adds no key.
C1_ChecklistKeysAreConfigured ==
    DictKeys(Checklist) = ConfiguredKeys

\* C2: every file of affected_resources is a changed file that matches no
\* exclusion pattern, and the pass of the loop over an excluded file leaves
\* the whole document as it was (no entry, mapping, checklist flip or action).
C2_ExcludedFilesContributeNothing ==
    /\ [](\A n \in DOMAIN Resources :
            /\ Resources[n].file \in Range(changed_files)
            /\ ~ExcludedFile(Resources[n].file))
    /\ [][InLoop /\ ExcludedFile(CurrentFile) => change_metadata' = change_metadata]_vars

C2_Witness ==
    /\ pc = "detected"
    /\ Len(changed_files) = 2
    /\ ExcludedFile(changed_files[1])
    /\ \E b \in DOMAIN resource_mappings :
          RuleMatchesFile(resource_mappings[b].v, changed_files[1])
    /\ Len(Resources) > 0

\* C3 as stated: when detection has finished, every configured key is true
\* exactly when a changed file that is not excluded matched a mapping whose
\* target_stack is that key or "all".
C3_ChecklistTrueIffTargeted ==
    pc # "loop" =>
        \A k \in ConfiguredKeys : (DictAt(Checklist, k) = TRUE) <=> StackTargeted(k)

\* C3 as amended: the same, for every configured key other than the empty
\* string (a target_stack of "" is falsy and flips nothing).
C3_NamedChecklistTrueIffTargeted ==
    pc # "loop" =>
        \A k \in ConfiguredKeys \ {""} :
            (DictAt(Checklist, k) = TRUE) <=> StackTargeted(k)

C3_Witness ==
    /\ pc = "detected"
    /\ ConfiguredKeys = {"infra", "application"}
    /\ DictAt(Checklist, "infra") = TRUE
    /\ DictAt(Checklist, "application") = FALSE
    /\ Len(Resources) = 2

\* C4: within one run a checklist value that is true stays true at every
\* later step, and a step that processes a match targeting "all" leaves every
\* checklist value true.
C4_ChecklistMonotonic ==
    [][ /\ \A n \in DOMAIN Checklist :
              Checklist[n].v = TRUE =>
                  DictGet(change_metadata'.deployment_checklist, Checklist[n].k, FALSE) = TRUE
        /\ (InLoop /\ ~ExcludedFile(CurrentFile) /\ match_idx <= Len(CurrentMatches)
              /\ Get(CurrentMatch.v, "target_stack", None_) = "all")
           => \A n \in DOMAIN change_metadata'.deployment_checklist :
                  change_metadata'.deployment_checklist[n].v = TRUE ]_vars

C4_Witness ==
    /\ pc = "detected"
    /\ Len(Resources) >= 2
    /\ Resources[1].target_stack = "all"
    /\ Resources[2].target_stack = "infra"
    /\ ConfiguredKeys = {"infra", "application"}
    /\ \A n \in DOMAIN Checklist : Checklist[n].v = TRUE

\* C10: every affected_resources entry the Detector writes has the keys
\* resource_type and impact_level (None when the rule omits them), so the
\* Validator emits no "Resource missing ..." warning for a Detector document,
\* enhanced or not.
C10_DetectorEntriesComplete ==
    /\ \A n \in DOMAIN Resources :
          {"resource_type", "impact_level"} \subseteq DOMAIN Resources[n]
    /\ pc = "validated" =>
          /\ W_NO_RESOURCE_TYPE \notin Range(result.ret.warnings)
          /\ W_NO_IMPACT_LEVEL \notin Range(result.ret.warnings)

C10_Witness ==
    /\ pc = "validated"
    /\ result.metadata_path = ENHANCED
    /\ \E n \in DOMAIN Resources :
          /\ Resources[n].mapping = "misc"
          /\ Resources[n].resource_type = None_
          /\ Resources[n].impact_level = None_

\* Scenario A: the only changed file is not excluded and matches exactly one
\* mapping, whose target_stack is "all", impact_level "CRITICAL" and
\* required_actions non-empty.
ScenarioA ==
    /\ Len(changed_files) = 1
    /\ ~ExcludedFile(changed_files[1])
    /\ Cardinality({b \in DOMAIN resource_mappings :
                       RuleMatchesFile(resource_mappings[b].v, changed_files[1])}) = 1
    /\ \A b \in DOMAIN resource_mappings :
          RuleMatchesFile(resource_mappings[b].v, changed_files[1]) =>
              /\ Get(resource_mappings[b].v, "target_stack", None_) = "all"
              /\ Get(resource_mappings[b].v, "impact_level", None_) = "CRITICAL"
              /\ Get(resource_mappings[b].v, "required_actions", <<>>) # <<>>

\* what Scenario A expects of the enhanced document and of the verdict
ScenarioAOutcome ==
    /\ Len(enhanced_file.affected_resources) = 1
    /\ \A n \in DOMAIN enhanced_file.deployment_checklist :
          enhanced_file.deployment_checklist[n].v = TRUE
    /\ DictKeys(enhanced_file.deployment_checklist) = ConfiguredKeys
    /\ \A b \in DOMAIN resource_mappings :
          RuleMatchesFile(resource_mappings[b].v, changed_files[1]) =>
              Range(enhanced_file.required_actions)
                  = Range(resource_mappings[b].v.required_actions)
    /\ result.ret.is_valid = TRUE
    /\ result.ret.errors = <<>>
    /\ result.ret.warnings = <<>>

ValidatedEnhanced == pc = "validated" /\ result.metadata_path = ENHANCED

\* C9 as stated (Scenario A, end to end): when the only changed file is not
\* excluded and matches exactly one mapping, whose target_stack is "all",
\* impact_level "CRITICAL" and required_actions non-empty, then whatever the
\* configured checklist keys and the condition mapping, the pipeline yields
\* one affected resource, every checklist key true, that mapping's actions,
\* and the Validator returns ok with no errors and no warnings.
C9_ScenarioAValid ==
    (ValidatedEnhanced /\ ScenarioA) => ScenarioAOutcome

\* C9 as amended: the same, provided at least one checklist key is configured
\* and the Enhancer has a condition to write: some configured key has a
\* non-empty name in the condition mapping, or "application" is configured.
\* required_actions holds that mapping's actions once each, in any order.
C9_ScenarioAValidWithConditions ==
    ( /\ ValidatedEnhanced
      /\ ScenarioA
      /\ ConfiguredKeys # {}
      /\ \/ "application" \in ConfiguredKeys
         \/ \E k \in ConfiguredKeys :
               Truthy(Get(condition_mapping, k, None_)) )
    => ScenarioAOutcome

C9_Witness ==
    /\ ValidatedEnhanced
    /\ ScenarioA
    /\ ConfiguredKeys = {"", "infra"}
    /\ Truthy(Get(condition_mapping, "infra", None_))
    /\ Len(resource_mappings) = 2
    /\ result.strict = TRUE
    /\ result.ret.is_valid = TRUE

-----------------------------------------------------------------------------
(* Properties of the Enhancer and the Validator, under SpecDoc. *)

Enhanced == "enhanced" \in DOMAIN enhanced_file
InputChecklist == Get(metadata_file, "deployment_checklist", <<>>)
Conditions == enhanced_file.cloudformation_conditions
Validated == Load(result.metadata_path)

\* C5 as stated: every checklist key with an entry in the condition mapping
\* has its flag under the mapped name, whatever the mapping (shared names,
\* the name DeployApplicationStack and the empty name included).
C5_ConditionEqualsFlag ==
    Enhanced =>
        \A n \in DOMAIN InputChecklist :
            InputChecklist[n].k \in DOMAIN condition_mapping =>
                LET name == condition_mapping[InputChecklist[n].k]
                IN  /\ name \in DictKeys(Conditions)
                    /\ DictAt(Conditions, name) = InputChecklist[n].v

\* the last checklist key, in iteration order, that the mapping sends to name
LastMappedTo(name) ==
    CHOOSE n \in DOMAIN InputChecklist :
        /\ Get(condition_mapping, InputChecklist[n].k, None_) = name
        /\ \A m \in DOMAIN InputChecklist :
              Get(condition_mapping, InputChecklist[m].k, None_) = name => m <= n

\* C5 as amended: a checklist key mapped to a non-empty name puts a condition
\* under that name; its value is the flag of the last checklist key mapped to
\* the name, except that DeployApplicationStack holds the flag of
\* "application" whenever "application" is a checklist key.  A key mapped to
\* the empty name, like a key with no entry, produces no condition.
C5_ConditionEqualsLastFlag ==
    Enhanced =>
        /\ \A n \in DOMAIN InputChecklist :
              InputChecklist[n].k \in DOMAIN condition_mapping =>
                  LET name == condition_mapping[InputChecklist[n].k]
                  IN  name # "" =>
                        /\ name \in DictKeys(Conditions)
                        /\ DictAt(Conditions, name) =
                             IF name = "DeployApplicationStack"
                                /\ "application" \in DictKeys(InputChecklist)
                             THEN DictAt(InputChecklist, "application")
                             ELSE InputChecklist[LastMappedTo(name)].v
        /\ DictKeys(Conditions) =
              ({condition_mapping[k] :
                   k \in DictKeys(InputChecklist) \cap DOMAIN condition_mapping} \ {""})
              \cup (IF "application" \in DictKeys(InputChecklist)
                    THEN {"DeployApplicationStack"} ELSE {})

C5_Witness ==
    /\ Enhanced
    /\ InputChecklist = <<[k |-> "infra", v |-> TRUE], [k |-> "application", v |-> FALSE]>>
    /\ Get(condition_mapping, "infra", None_) = "DeploySharedStack"
    /\ Get(condition_mapping, "application", None_) = "DeploySharedStack"
    /\ DictAt(Conditions, "DeploySharedStack") = FALSE

C7_Verdict ==
    pc = "validated" =>
        result.ret.is_valid =
            (result.ret.errors = <<>> /\ (~result.strict \/ result.ret.warnings = <<>>))

C7_Witness ==
    /\ pc = "validated"
    /\ result.strict = FALSE
    /\ result.ret.errors = <<>>
    /\ result.ret.warnings # <<>>
    /\ result.ret.is_valid = TRUE

\* a document that passes the structural gate, with a CRITICAL resource and
\* required_actions empty or absent
CriticalWithoutActions(metadata) ==
    /\ {"affected_resources", "deployment_checklist"} \subseteq DOMAIN metadata
    /\ \E n \in DOMAIN metadata.affected_resources :
          /\ "impact_level" \in DOMAIN metadata.affected_resources[n]
          /\ metadata.affected_resources[n].impact_level = "CRITICAL"
    /\ ("required_actions" \in DOMAIN metadata => metadata.required_actions = <<>>)

\* C8: for a document that passes the structural gate, a CRITICAL resource
\* with required_actions empty or absent is reported as an error, never as a
\* warning, and ok is false in strict and in non-strict mode.
C8_CriticalAlwaysFatal ==
    (pc = "validated" /\ CriticalWithoutActions(Validated)) =>
        /\ E_CRITICAL_NO_ACTION \in Range(result.ret.errors)
        /\ E_CRITICAL_NO_ACTION \notin Range(result.ret.warnings)
        /\ result.ret.is_valid = FALSE

C8_Witness ==
    /\ pc = "validated"
    /\ result.strict = FALSE
    /\ CriticalWithoutActions(Validated)
    /\ "required_actions" \notin DOMAIN Validated
    /\ Len(Validated.affected_resources) = 2
    /\ Get(Validated.affected_resources[1], "impact_level", None_) = "LOW"
    /\ result.ret.errors = <<E_CRITICAL_NO_ACTION>>
    /\ result.ret.warnings = <<>>

=============================================================================
